---- MODULE Spec2Model ----
(***************************************************************************)
(* Retrieval core of the story question-answering application:             *)
(* src/semantic_chat.py (SemanticChatEngine and the process-wide           *)
(* chat_engine instance) driven by the Flask handlers of                   *)
(* src/app_enhanced.py (upload_story, delete_story, dashboard, chat_api).  *)
(*                                                                         *)
(* Texts are kept as run-length encoded character strings: a text is a     *)
(* sequence of runs <<c, n>>, the character c repeated n >= 1 times, with  *)
(* neighbouring runs holding different characters.  len(), strip() and     *)
(* re.split() are computed on that representation, so the real chunk_size  *)
(* of 512 characters is reachable with short sequences.                    *)
(***************************************************************************)
EXTENDS Integers, Sequences, FiniteSets, TLC

\* ------------------------------------------------------------------ bounds

\* Story rows ever inserted (AUTOINCREMENT ids 1..MaxStories).
MaxStories == 2
\* Rows ever appended to conversation_history.
MaxConv == 1

\* ------------------------------------------------------- program constants

\* self.chunk_size
chunk_size == 512
\* semantic_search(self, query, top_k=5): process_question passes no top_k
top_k == 5
\* search_results[:3]
ctx_k == 3

\* ------------------------------------------------------------------- texts

Term == {".", "!", "?"}
WS == {" ", "\n"}

RECURSIVE TLen(_)
\* len(text)
TLen(t) == IF t = <<>> THEN 0 ELSE Head(t)[2] + TLen(Tail(t))

RECURSIVE LStrip(_)
LStrip(t) == IF t # <<>> /\ Head(t)[1] \in WS THEN LStrip(Tail(t)) ELSE t

RECURSIVE RStrip(_)
RStrip(t) ==
    IF t # <<>> /\ t[Len(t)][1] \in WS THEN RStrip(SubSeq(t, 1, Len(t) - 1)) ELSE t

\* str.strip()
Strip(t) == RStrip(LStrip(t))

RECURSIVE SplitFrom(_, _, _)
\* re.split(r'[.!?]+', text): a maximal run of terminators is one separator;
\* a text that starts or ends with a separator yields an empty first or last
\* piece.  cur is the piece being read, inSep whether the previous run was
\* part of a separator.
SplitFrom(t, cur, inSep) ==
    IF t = <<>> THEN <<cur>>
    ELSE IF Head(t)[1] \in Term
         THEN IF inSep THEN SplitFrom(Tail(t), cur, TRUE)
              ELSE <<cur>> \o SplitFrom(Tail(t), <<>>, TRUE)
         ELSE SplitFrom(Tail(t), Append(cur, Head(t)), FALSE)

re_split(t) == SplitFrom(t, <<>>, FALSE)

RECURSIVE ChunkLoop(_, _, _)
\* The for loop of chunk_text over the split sentences, and the final flush.
ChunkLoop(sentences, chunks, current_chunk) ==
    IF sentences = <<>>
    THEN IF current_chunk # <<>> THEN Append(chunks, Strip(current_chunk)) ELSE chunks
    ELSE LET sentence == Strip(Head(sentences))
             rest == Tail(sentences)
         IN  IF sentence = <<>> THEN ChunkLoop(rest, chunks, current_chunk)
             ELSE IF TLen(current_chunk) + TLen(sentence) < chunk_size
                  THEN ChunkLoop(rest, chunks,
                                 current_chunk \o sentence \o << <<".", 1>>, <<" ", 1>> >>)
                  ELSE ChunkLoop(rest,
                                 IF current_chunk # <<>>
                                 THEN Append(chunks, Strip(current_chunk)) ELSE chunks,
                                 sentence \o << <<".", 1>>, <<" ", 1>> >>)

\* chunk_text without the flush after the loop (`if current_chunk:
\* chunks.append(...)`): the chunk being filled when the text ends is lost.
chunk_text_no_final_flush(text) ==
    LET chunks == ChunkLoop(re_split(text), <<>>, <<>>)
    IN  SubSeq(chunks, 1, Len(chunks) - 1)

\* SemanticChatEngine.chunk_text
chunk_text(text) == ChunkLoop(re_split(text), <<>>, <<>>)

\* f"{title}\n\n{content}"
full_text(title, content) == title \o << <<"\n", 2>> >> \o content


\* ------------------------------------------------------------------ inputs

\* verify_token(session['token']): the authenticated user ids
Users == {1, 2}

\* Form inputs of /upload as the browser sends them (title, content).
\* "a" / "b."; "c" / "b."; "a" / 600 b's, ". ", 1000 c's, "."; "?" / "!";
\* "a" / " ".
Uploads ==
    { << << <<"a", 1>> >>, << <<"b", 1>>, <<".", 1>> >> >>,
      << << <<"c", 1>> >>, << <<"b", 1>>, <<".", 1>> >> >>,
      << << <<"a", 1>> >>,
         << <<"b", 600>>, <<".", 1>>, <<" ", 1>>, <<"c", 1000>>, <<".", 1>> >> >>,
      << << <<"?", 1>> >>, << <<"!", 1>> >> >>,
      << << <<"a", 1>> >>, << <<" ", 1>> >> >> }

\* Questions posted to /api/chat: "c?", " ".
Questions ==
    { << <<"c", 1>>, <<"?", 1>> >>, << <<" ", 1>> >> }

\* ------------------------------------------- the external model collaborators

\* The characters of a text that are neither whitespace nor terminators.
Letters(t) == {t[i][1] : i \in 1..Len(t)} \ (Term \cup WS)

\* The inner product of the normalised embeddings of a query and of a chunk,
\* for one embedding model that preserves lexical similarity: 1 when every
\* letter of the query occurs in the chunk, -1 when none does, 0 otherwise.
\* Equal texts get equal scores.
Similarity(query, chunk) ==
    IF Letters(query) \subseteq Letters(chunk) THEN 1
    ELSE IF Letters(query) \cap Letters(chunk) = {} THEN -1
    ELSE 0

\* The score faiss gives the places of a result it could not fill
\* (label -1): -FLT_MAX, below every inner product.
MinusFltMax == -2147483647

Min(a, b) == IF a < b THEN a ELSE b

RECURSIVE best_first(_, _, _, _)
\* The ways to list up to k of the rows `left`, best score first: the next
\* row is any row of `left` with the highest score.
best_first(vectors, query, left, k) ==
    IF k = 0 \/ left = {} THEN {<<>>}
    ELSE LET best == {r \in left : \A x \in left :
                         Similarity(query, vectors[x].chunk_text)
                           <= Similarity(query, vectors[r].chunk_text)}
         IN  UNION { { <<r>> \o t : t \in best_first(vectors, query, left \ {r}, k - 1) }
                     : r \in best }

\* index.search(query, k) of faiss.IndexFlatIP over `vectors`: the k best rows
\* by descending inner product as <<score, row>> pairs, rows counted from 0.
\* faiss does not fix the order of rows with equal scores, nor which of the
\* rows tied at the k-th place are kept; unfilled places hold
\* <<-FLT_MAX, -1>>.  The result is the set of lists the call may return.
index_search(vectors, query, k) ==
    { [i \in 1..k |-> IF i <= Len(s)
                      THEN <<Similarity(query, vectors[s[i]].chunk_text), s[i] - 1>>
                      ELSE <<MinusFltMax, -1>>]
      : s \in best_first(vectors, query, 1..Len(vectors), k) }

\* ------------------------------------------------------------------- state

VARIABLES
    stories,               \* table stories: rows [id, user_id, title, content]
    owners,                \* history: owners[i] is the user who inserted story i;
                           \* Len(owners) is the last AUTOINCREMENT id given out
    conversation_history,  \* table conversation_history, in insertion order
    index,                 \* chat_engine.index
    story_chunks,          \* chat_engine.story_chunks
    resp,                  \* what the last completed request returned
    threads,               \* the request each worker thread is serving, and where
    db_writer              \* the thread whose connection holds SQLite's write
                           \* lock (an uncommitted DELETE), 0 when none does

vars == <<stories, owners, conversation_history, index, story_chunks, resp,
          threads, db_writer>>

\* The worker threads of the threaded server.
Threads == {1, 2}

\* A thread between requests.  pc is the place of the thread in its handler,
\* ret where build_semantic_index returns to, built what it did, meta its
\* chunk_metadata, hits what index.search returned, results the
\* search_results; seen_vectors and seen_chunks are history: the rows of
\* self.index and the self.story_chunks the search of this request read.
Idle ==
    [pc |-> "idle", op |-> "", user_id |-> 0, question |-> <<>>, ret |-> "",
     built |-> "not_called", meta |-> <<>>, hits |-> <<>>, results |-> <<>>,
     seen_vectors |-> <<>>, seen_chunks |-> <<>>]

\* self.index = None
NoIndex == [present |-> FALSE, vectors |-> <<>>]

\* A response.  status is the HTTP status; answer, sources and confidence are
\* the JSON body of /api/chat (has_confidence: the body holds the key).  The
\* other fields are history kept for the properties: build is what
\* build_semantic_index did in this request, searched whether
\* semantic_search returned, results the search results with the faiss row of
\* each, context the text handed to the QA model, qa what the QA model did
\* ("not_called", "answered", "raised"), question the question
\* process_question was given.  For the calls made on the engine
\* directly: text and chunks are the argument and the result of chunk_text;
\* limit and records the LIMIT of a query on conversation_history and the
\* rows it returned, each stood for by its id.
Response(op, user_id, status) ==
    [op |-> op, user_id |-> user_id, status |-> status, answer |-> "",
     sources |-> <<>>, has_confidence |-> FALSE, confidence |-> 0,
     build |-> "not_called", searched |-> FALSE, results |-> <<>>, context |-> <<>>,
     qa |-> "not_called", question |-> <<>>, text |-> <<>>, chunks |-> <<>>,
     limit |-> 0, records |-> <<>>]

Init ==
    /\ stories = {}
    /\ owners = <<>>
    /\ conversation_history = <<>>
    /\ index = NoIndex
    /\ story_chunks = <<>>
    /\ resp = Response("start", 0, 0)
    /\ threads = [t \in Threads |-> Idle]
    /\ db_writer = 0

\* ---------------------------------------------------------------- the index

RECURSIVE SortedIds(_)
\* The ids of a set in ascending order: the rowid order in which SQLite
\* returns the rows of a table scan or of an IN lookup on the primary key.
SortedIds(S) ==
    IF S = {} THEN <<>>
    ELSE LET lo == CHOOSE x \in S : \A y \in S : x <= y
         IN  <<lo>> \o SortedIds(S \ {lo})

StoryRow(st, id) == CHOOSE s \in st : s.id = id

\* SELECT id, title, content FROM stories WHERE user_id = ?   (st: the table)
user_stories(st, user_id) ==
    LET ids == SortedIds({s.id : s \in {r \in st : r.user_id = user_id}})
    IN  [i \in 1..Len(ids) |-> StoryRow(st, ids[i])]

RECURSIVE chunk_metadata(_)
\* The loop over stories in build_semantic_index: one entry per chunk of each
\* story, in story order.
chunk_metadata(rows) ==
    IF rows = <<>> THEN <<>>
    ELSE LET story == Head(rows)
             chunks == chunk_text(full_text(story.title, story.content))
         IN  [i \in 1..Len(chunks) |->
                 [story_id |-> story.id, chunk_index |-> i - 1, chunk_text |-> chunks[i]]]
             \o chunk_metadata(Tail(rows))

\* The embeddings of all_chunks added to a fresh IndexFlatIP.  A vector is
\* stood for by the chunk it embeds (story, ordinal, text).
new_index(meta) == [present |-> TRUE, vectors |-> meta]

\* build_semantic_index with a slip: the new index is installed before the
\* embeddings are computed, so a failure of the embedding model leaves an
\* empty index and no chunks behind.
build_semantic_index_early_install(st, idx, chunks, user_id, embed_ok) ==
    LET rows == user_stories(st, user_id)
        meta == chunk_metadata(rows)
        same == [index |-> idx, story_chunks |-> chunks]
    IN  IF rows = <<>> THEN same @@ [outcome |-> "returned"]
        ELSE IF meta = <<>> THEN same @@ [outcome |-> "returned"]
        ELSE IF ~embed_ok
        THEN [index |-> [present |-> TRUE, vectors |-> <<>>], story_chunks |-> <<>>,
              outcome |-> "raised"]
        ELSE [index |-> new_index(meta), story_chunks |-> meta, outcome |-> "returned"]

\* build_semantic_index with a slip: for a user without stories the chunk
\* list is emptied and the index left in place.
build_semantic_index_clears_chunks_only(st, idx, chunks, user_id, embed_ok) ==
    LET rows == user_stories(st, user_id)
        meta == chunk_metadata(rows)
        same == [index |-> idx, story_chunks |-> chunks]
    IN  IF rows = <<>>
        THEN [index |-> idx, story_chunks |-> <<>>, outcome |-> "returned"]
        ELSE IF meta = <<>> THEN same @@ [outcome |-> "returned"]
        ELSE IF ~embed_ok THEN same @@ [outcome |-> "raised"]
        ELSE [index |-> new_index(meta), story_chunks |-> meta, outcome |-> "returned"]

\* The engine after build_semantic_index(user_id) run on its own against the
\* stories table st, and whether the call returned or raised.  embed_ok: the
\* embedding model answers.  The rows the call writes to table story_chunks
\* are left out: no code of the application reads that table.
build_semantic_index(st, idx, chunks, user_id, embed_ok) ==
    LET rows == user_stories(st, user_id)
        meta == chunk_metadata(rows)
        same == [index |-> idx, story_chunks |-> chunks]
    IN  IF rows = <<>> THEN same @@ [outcome |-> "returned"]
        ELSE IF meta = <<>> THEN same @@ [outcome |-> "returned"]
        ELSE IF ~embed_ok THEN same @@ [outcome |-> "raised"]
        ELSE [index |-> new_index(meta), story_chunks |-> meta, outcome |-> "returned"]

\* --------------------------------------------------------------- the search

\* seq[i] of a Python list, i counted from 0, negative i from the end
PyItem(seq, i) == IF i >= 0 THEN seq[i + 1] ELSE seq[Len(seq) + i + 1]

RECURSIVE collect_results(_, _)
\* The loop of semantic_search over zip(scores[0], indices[0]).  row is
\* history: the faiss label the entry was made from.
collect_results(hits, chunks) ==
    IF hits = <<>> THEN <<>>
    ELSE LET score == Head(hits)[1]
             i == Head(hits)[2]
         IN  (IF i < Len(chunks)
              THEN << [score |-> score,
                       chunk |-> PyItem(chunks, i).chunk_text,
                       story_id |-> PyItem(chunks, i).story_id,
                       row |-> i] >>
              ELSE <<>>)
             \o collect_results(Tail(hits), chunks)

\* The lists semantic_search(query, top_k) may return once the query is embedded.
semantic_search(idx, chunks, query, k) ==
    IF ~idx.present \/ chunks = <<>> THEN {<<>>}
    ELSE {collect_results(hits, chunks) : hits \in index_search(idx.vectors, query, k)}

\* search_results[:n]
Take(seq, n) == SubSeq(seq, 1, Min(n, Len(seq)))

RECURSIVE join_chunks(_)
\* "\n\n".join(result['chunk'] for result in results)
join_chunks(results) ==
    IF results = <<>> THEN <<>>
    ELSE IF Len(results) = 1 THEN results[1].chunk
    ELSE results[1].chunk \o << <<"\n", 2>> >> \o join_chunks(Tail(results))

\* SELECT id, title FROM stories WHERE id IN (story_ids), the titles
source_titles(st, results) ==
    LET wanted == {results[i].story_id : i \in 1..Len(results)}
        ids == SortedIds({s.id : s \in {r \in st : r.id \in wanted}})
    IN  [i \in 1..Len(ids) |-> StoryRow(st, ids[i]).title]

\* max(r['score'] for r in search_results)
max_score(results) ==
    CHOOSE m \in {results[i].score : i \in 1..Len(results)} :
        \A i \in 1..Len(results) : results[i].score <= m

\* generate_answer without its try/except: the exception of the QA model
\* reaches the handler of process_question, which answers with its own
\* error message.
generate_answer_no_fallback(qa_ok) ==
    IF qa_ok THEN "qa_answer"
    ELSE "I encountered an error processing your question. Please try again."

\* generate_answer: the QA model's answer, or the fixed message when it raises
generate_answer(qa_ok) ==
    IF qa_ok THEN "qa_answer" ELSE "I couldn't find a specific answer to your question."

\* created_at TIMESTAMP DEFAULT CURRENT_TIMESTAMP: the clock in whole seconds
\* when a row is inserted into the table hist, the second of the last insert
\* or a later one.
timestamps(hist) ==
    IF hist = <<>> THEN {1}
    ELSE {hist[Len(hist)].created_at, hist[Len(hist)].created_at + 1}

\* the row save_conversation inserts; its AUTOINCREMENT id is its place in
\* the table, from which no code deletes
conversation_row(user_id, question, answer, sources, created_at) ==
    [user_id |-> user_id, question |-> question, answer |-> answer, sources |-> sources,
     created_at |-> created_at]

\* ------------------------------------------------------------- the handlers

\* The state a handler leaves behind.
Outcome(idx, chunks, hist, r) ==
    [index |-> idx, story_chunks |-> chunks,
     conversation_history |-> hist, resp |-> r]

\* build_semantic_index when the index is absent, as chat_api and
\* process_question both call it
build_if_absent(st, idx, chunks, user_id, embed_ok) ==
    IF ~idx.present THEN build_semantic_index(st, idx, chunks, user_id, embed_ok)
    ELSE [index |-> idx, story_chunks |-> chunks, outcome |-> "not_called"]

\* What process_question(user_id, question) may return and leave behind, from
\* the engine state e (index, story_chunks, outcome of the build
\* chat_api ran).  embed_ok, query_ok: the embedding model answers for the
\* chunks, for the query; qa_ok: the QA model answers.
process_question(st, e, hist, user_id, question, embed_ok, query_ok, qa_ok) ==
    LET b == build_if_absent(st, e.index, e.story_chunks, user_id, embed_ok)
        built == IF b.outcome = "not_called" THEN e.outcome ELSE b.outcome
        base == [Response("ask", user_id, 200) EXCEPT !.build = built,
                                                      !.question = question]
        error == [base EXCEPT
                    !.answer = "I encountered an error processing your question. Please try again."]
    IN  IF b.outcome = "raised"
        THEN {Outcome(b.index, b.story_chunks, hist, error)}
        ELSE IF ~b.index.present \/ b.story_chunks = <<>>
        THEN {Outcome(b.index, b.story_chunks, hist,
                      [base EXCEPT
                         !.searched = TRUE,
                         !.answer = "I couldn't find any relevant information in your uploaded stories."])}
        ELSE IF ~query_ok
        THEN {Outcome(b.index, b.story_chunks, hist, error)}
        ELSE { IF search_results = <<>>
               THEN Outcome(b.index, b.story_chunks, hist,
                      [base EXCEPT
                         !.searched = TRUE,
                         !.answer = "I couldn't find any relevant information in your uploaded stories."])
               ELSE LET top == Take(search_results, ctx_k)
                        answer == generate_answer(qa_ok)
                        sources == source_titles(st, top)
                    IN  Outcome(b.index, b.story_chunks,
                          Append(hist, conversation_row(user_id, question, answer, sources,
                                                        created_at)),
                          [base EXCEPT
                             !.searched = TRUE,
                             !.qa = IF qa_ok THEN "answered" ELSE "raised",
                             !.results = search_results,
                             !.context = join_chunks(top),
                             !.answer = answer,
                             !.sources = sources,
                             !.has_confidence = TRUE,
                             !.confidence = max_score(search_results)])
               : search_results \in semantic_search(b.index, b.story_chunks, question, top_k),
                 created_at \in timestamps(hist) }

\* chat_api with a slip: the story count is not looked at, and a user without
\* stories goes on to process_question.
chat_api_outcomes_no_story_count(user_id, posted, embed_ok, query_ok, qa_ok) ==
    LET question == Strip(posted)
        e == build_if_absent(stories, index, story_chunks, user_id, embed_ok)
    IN  IF question = <<>>
        THEN {Outcome(index, story_chunks, conversation_history,
                      Response("ask", user_id, 400))}
        ELSE IF e.outcome = "raised"
        THEN {Outcome(e.index, e.story_chunks, conversation_history,
                      [Response("ask", user_id, 500) EXCEPT !.build = "raised"])}
        ELSE process_question(stories, e, conversation_history, user_id, question,
                              embed_ok, query_ok, qa_ok)

\* What POST /api/chat may return and leave behind for an authenticated user.
chat_api_outcomes(user_id, posted, embed_ok, query_ok, qa_ok) ==
    LET question == Strip(posted)
        story_count == Cardinality({s \in stories : s.user_id = user_id})
        e == build_if_absent(stories, index, story_chunks, user_id, embed_ok)
    IN  IF question = <<>>
        THEN {Outcome(index, story_chunks, conversation_history,
                      Response("ask", user_id, 400))}
        ELSE IF story_count = 0
        THEN {Outcome(index, story_chunks, conversation_history,
                      [Response("ask", user_id, 200) EXCEPT
                         !.answer = "You have no uploaded stories to ask questions about. Please upload some stories first.",
                         !.has_confidence = TRUE,
                         !.confidence = 0])}
        ELSE IF e.outcome = "raised"
        THEN {Outcome(e.index, e.story_chunks, conversation_history,
                      [Response("ask", user_id, 500) EXCEPT !.build = "raised"])}
        ELSE process_question(stories, e, conversation_history, user_id, question,
                              embed_ok, query_ok, qa_ok)

\* POST /api/chat
chat_api(user_id, posted) ==
    \E embed_ok, query_ok, qa_ok \in BOOLEAN :
      \E o \in chat_api_outcomes(user_id, posted, embed_ok, query_ok, qa_ok) :
        /\ Len(o.conversation_history) <= MaxConv
        /\ index' = o.index
        /\ story_chunks' = o.story_chunks
        /\ conversation_history' = o.conversation_history
        /\ resp' = o.resp
        /\ UNCHANGED <<stories, owners, threads, db_writer>>

\* The engine after a handler called build_semantic_index(user_id) against the
\* stories table st, and the handler's response: the exception of a failed
\* build leaves the handler as a 500.
rebuild(op, st, user_id, embed_ok) ==
    LET b == build_semantic_index(st, index, story_chunks, user_id, embed_ok)
    IN  /\ index' = b.index
        /\ story_chunks' = b.story_chunks
        /\ resp' = [Response(op, user_id, IF b.outcome = "raised" THEN 500 ELSE 302)
                      EXCEPT !.build = b.outcome]

\* POST /upload
upload_story(user_id, form) ==
    LET title == Strip(form[1])
        content == Strip(form[2])
        id == Len(owners) + 1
        st == stories \cup {[id |-> id, user_id |-> user_id,
                             title |-> title, content |-> content]}
    IN  IF title = <<>> \/ content = <<>>
        THEN /\ resp' = [Response("upload", user_id, 302) EXCEPT
                           !.answer = "Title and content are required"]
             /\ UNCHANGED <<stories, owners, conversation_history,
                            index, story_chunks, threads, db_writer>>
        ELSE /\ Len(owners) < MaxStories
             /\ stories' = st
             /\ owners' = Append(owners, user_id)
             /\ \E embed_ok \in BOOLEAN : rebuild("upload", st, user_id, embed_ok)
             /\ UNCHANGED <<conversation_history, threads, db_writer>>

\* POST /delete_story/<story_id>
delete_story(user_id, story_id) ==
    LET st == {s \in stories : s.id # story_id}
    IN  IF \E s \in stories : s.id = story_id /\ s.user_id = user_id
        THEN /\ stories' = st
             /\ \E embed_ok \in BOOLEAN : rebuild("delete", st, user_id, embed_ok)
             /\ UNCHANGED <<owners, conversation_history, threads, db_writer>>
        ELSE /\ resp' = [Response("delete", user_id, 302) EXCEPT
                           !.answer = "Story not found or you do not have permission to delete it."]
             /\ UNCHANGED <<stories, owners, conversation_history,
                            index, story_chunks, threads, db_writer>>

\* GET /dashboard
dashboard(user_id) ==
    /\ \E embed_ok \in BOOLEAN : rebuild("dashboard", stories, user_id, embed_ok)
    /\ UNCHANGED <<stories, owners, conversation_history, threads, db_writer>>

Next ==
    \/ \E u \in Users, form \in Uploads : upload_story(u, form)
    \/ \E u \in Users, id \in 1..MaxStories : delete_story(u, id)
    \/ \E u \in Users : dashboard(u)
    \/ \E u \in Users, q \in Questions : chat_api(u, q)

Spec == Init /\ [][Next]_vars

\* ------------------------------------------------- the handlers, threaded
\* The same handlers run by the worker threads of the server, one step for
\* each read or write of the shared engine or of the database.  Nothing in
\* the code guards chat_engine; SQLite lets one connection write at a time,
\* and a connection that wants to write waits for the lock.

Goto(t, next) == [threads EXCEPT ![t].pc = next]

\* The request of thread t ends with response r.
Finish(t, r) ==
    /\ threads' = [threads EXCEPT ![t] = Idle]
    /\ resp' = r

NoInfo(t) ==
    [Response("ask", threads[t].user_id, 200) EXCEPT
        !.build = threads[t].built,
        !.question = threads[t].question,
        !.searched = TRUE,
        !.answer = "I couldn't find any relevant information in your uploaded stories."]

AskError(t, built) ==
    [Response("ask", threads[t].user_id, 200) EXCEPT
        !.build = built,
        !.question = threads[t].question,
        !.answer = "I encountered an error processing your question. Please try again."]

\* build_semantic_index leaves: back to the handler that called it.
Return(t, outcome) ==
    LET th == threads[t]
    IN  IF th.ret = "respond"
        THEN Finish(t, [Response(th.op, th.user_id, IF outcome = "raised" THEN 500 ELSE 302)
                          EXCEPT !.build = outcome])
        ELSE IF outcome = "raised"
        THEN Finish(t, IF th.ret = "pq_check"
                       THEN [Response("ask", th.user_id, 500) EXCEPT !.build = "raised"]
                       ELSE AskError(t, "raised"))
        ELSE /\ threads' = [threads EXCEPT ![t].pc = th.ret, ![t].built = outcome]
             /\ UNCHANGED resp

\* A thread takes a request that calls build_semantic_index and answers.
Begin(t, op, user_id) ==
    threads' = [threads EXCEPT ![t] =
                  [Idle EXCEPT !.pc = "select", !.op = op, !.user_id = user_id,
                               !.ret = "respond"]]

\* upload_story up to build_semantic_index: lines 268-283
t_upload(t, user_id, form) ==
    LET title == Strip(form[1])
        content == Strip(form[2])
        id == Len(owners) + 1
    IN  /\ threads[t].pc = "idle"
        /\ IF title = <<>> \/ content = <<>>
           THEN /\ Finish(t, [Response("upload", user_id, 302) EXCEPT
                                !.answer = "Title and content are required"])
                /\ UNCHANGED <<stories, owners>>
           ELSE /\ Len(owners) < MaxStories
                /\ db_writer = 0
                /\ stories' = stories \cup {[id |-> id, user_id |-> user_id,
                                             title |-> title, content |-> content]}
                /\ owners' = Append(owners, user_id)
                /\ Begin(t, "upload", user_id)
                /\ UNCHANGED resp
        /\ UNCHANGED <<conversation_history, index, story_chunks, db_writer>>

\* delete_story up to build_semantic_index: lines 327-343
t_delete(t, user_id, story_id) ==
    /\ threads[t].pc = "idle"
    /\ IF \E s \in stories : s.id = story_id /\ s.user_id = user_id
       THEN /\ db_writer = 0
            /\ stories' = {s \in stories : s.id # story_id}
            /\ Begin(t, "delete", user_id)
            /\ UNCHANGED resp
       ELSE /\ Finish(t, [Response("delete", user_id, 302) EXCEPT
                            !.answer = "Story not found or you do not have permission to delete it."])
            /\ UNCHANGED stories
    /\ UNCHANGED <<owners, conversation_history, index, story_chunks, db_writer>>

\* dashboard up to build_semantic_index: lines 246-251
t_dashboard(t, user_id) ==
    /\ threads[t].pc = "idle"
    /\ Begin(t, "dashboard", user_id)
    /\ UNCHANGED <<stories, owners, conversation_history, index, story_chunks, resp,
                   db_writer>>

\* chat_api up to the story count: lines 361-384
t_ask(t, user_id, posted) ==
    LET question == Strip(posted)
    IN  /\ threads[t].pc = "idle"
        /\ IF question = <<>>
           THEN Finish(t, Response("ask", user_id, 400))
           ELSE IF {s \in stories : s.user_id = user_id} = {}
           THEN Finish(t, [Response("ask", user_id, 200) EXCEPT
                             !.answer = "You have no uploaded stories to ask questions about. Please upload some stories first.",
                             !.has_confidence = TRUE,
                             !.confidence = 0])
           ELSE /\ threads' = [threads EXCEPT ![t] =
                                 [Idle EXCEPT !.pc = "api_check", !.op = "ask",
                                              !.user_id = user_id, !.question = question]]
                /\ UNCHANGED resp
        /\ UNCHANGED <<stories, owners, conversation_history, index, story_chunks,
                       db_writer>>

\* `if not chat_engine.index` of chat_api (line 387) and `if not self.index`
\* of process_question (line 223)
t_check_index(t) ==
    /\ threads[t].pc \in {"api_check", "pq_check"}
    /\ LET after == IF threads[t].pc = "api_check" THEN "pq_check" ELSE "search"
       IN  threads' = IF index.present THEN Goto(t, after)
                      ELSE [threads EXCEPT ![t].pc = "select", ![t].ret = after]
    /\ UNCHANGED <<stories, owners, conversation_history, index, story_chunks, resp,
                   db_writer>>

\* build_semantic_index, lines 91-132: the SELECT, the chunking, the early returns
t_select(t) ==
    LET rows == user_stories(stories, threads[t].user_id)
        meta == chunk_metadata(rows)
    IN  /\ threads[t].pc = "select"
        /\ IF rows = <<>> \/ meta = <<>>
           THEN Return(t, "returned")
           ELSE /\ threads' = [threads EXCEPT ![t].pc = "delete_chunks", ![t].meta = meta]
                /\ UNCHANGED resp
        /\ UNCHANGED <<stories, owners, conversation_history, index, story_chunks,
                       db_writer>>

\* build_semantic_index, lines 105-109: the DELETE takes the write lock
t_delete_chunks(t) ==
    /\ threads[t].pc = "delete_chunks"
    /\ db_writer = 0
    /\ db_writer' = t
    /\ threads' = Goto(t, "embed")
    /\ UNCHANGED <<stories, owners, conversation_history, index, story_chunks, resp>>

\* build_semantic_index, lines 135-143: the embeddings; when the model fails
\* the exception drops the connection and with it the lock
t_embed(t) ==
    /\ threads[t].pc = "embed"
    /\ \E embed_ok \in BOOLEAN :
          IF embed_ok
          THEN /\ threads' = Goto(t, "new_index")
               /\ UNCHANGED <<resp, db_writer>>
          ELSE /\ Return(t, "raised")
               /\ db_writer' = 0
    /\ UNCHANGED <<stories, owners, conversation_history, index, story_chunks>>

\* build_semantic_index, line 147: self.index = faiss.IndexFlatIP(dimension)
t_new_index(t) ==
    /\ threads[t].pc = "new_index"
    /\ index' = [present |-> TRUE, vectors |-> <<>>]
    /\ threads' = Goto(t, "add")
    /\ UNCHANGED <<stories, owners, conversation_history, story_chunks, resp, db_writer>>

\* build_semantic_index, line 149: self.index.add(embeddings)
t_add(t) ==
    /\ threads[t].pc = "add"
    /\ index' = [present |-> TRUE, vectors |-> index.vectors \o threads[t].meta]
    /\ threads' = Goto(t, "store")
    /\ UNCHANGED <<stories, owners, conversation_history, story_chunks, resp, db_writer>>

\* build_semantic_index, lines 152-157: self.story_chunks = chunk_metadata, commit
t_store(t) ==
    /\ threads[t].pc = "store"
    /\ story_chunks' = threads[t].meta
    /\ db_writer' = 0
    /\ Return(t, "returned")
    /\ UNCHANGED <<stories, owners, conversation_history, index>>

\* semantic_search, line 161
t_search(t) ==
    /\ threads[t].pc = "search"
    /\ IF ~index.present \/ story_chunks = <<>>
       THEN Finish(t, NoInfo(t))
       ELSE threads' = Goto(t, "query") /\ UNCHANGED resp
    /\ UNCHANGED <<stories, owners, conversation_history, index, story_chunks, db_writer>>

\* semantic_search, lines 165-169: the query embedding and self.index.search
t_query(t) ==
    /\ threads[t].pc = "query"
    /\ \E query_ok \in BOOLEAN :
          IF query_ok
          THEN /\ \E hits \in index_search(index.vectors, threads[t].question, top_k) :
                     threads' = [threads EXCEPT ![t].pc = "collect", ![t].hits = hits,
                                                ![t].seen_vectors = index.vectors]
               /\ UNCHANGED resp
          ELSE Finish(t, AskError(t, threads[t].built))
    /\ UNCHANGED <<stories, owners, conversation_history, index, story_chunks, db_writer>>

\* semantic_search, lines 171-181: the loop over self.story_chunks
t_collect(t) ==
    LET results == collect_results(threads[t].hits, story_chunks)
    IN  /\ threads[t].pc = "collect"
        /\ threads' = [threads EXCEPT ![t].pc = "answer", ![t].results = results,
                                      ![t].seen_chunks = story_chunks]
        /\ UNCHANGED <<stories, owners, conversation_history, index, story_chunks, resp,
                       db_writer>>

\* process_question, lines 229-263
t_answer(t) ==
    LET th == threads[t]
        top == Take(th.results, ctx_k)
        sources == source_titles(stories, top)
    IN  /\ th.pc = "answer"
        /\ IF th.results = <<>>
           THEN Finish(t, NoInfo(t)) /\ UNCHANGED conversation_history
           ELSE /\ db_writer = 0
                /\ Len(conversation_history) < MaxConv
                /\ \E qa_ok \in BOOLEAN, created_at \in timestamps(conversation_history) :
                     /\ conversation_history' =
                           Append(conversation_history,
                                  conversation_row(th.user_id, th.question,
                                                   generate_answer(qa_ok), sources,
                                                   created_at))
                     /\ Finish(t, [Response("ask", th.user_id, 200) EXCEPT
                                     !.build = th.built,
                                     !.question = th.question,
                                     !.searched = TRUE,
                                     !.qa = IF qa_ok THEN "answered" ELSE "raised",
                                     !.results = th.results,
                                     !.context = join_chunks(top),
                                     !.answer = generate_answer(qa_ok),
                                     !.sources = sources,
                                     !.has_confidence = TRUE,
                                     !.confidence = max_score(th.results)])
        /\ UNCHANGED <<stories, owners, index, story_chunks, db_writer>>

\* The requests the threaded server is given.
ConcUsers == {1}
ConcUploads == { << << <<"a", 1>> >>, << <<"b", 1>>, <<".", 1>> >> >>,
                 << << <<"a", 1>> >>, << <<" ", 1>> >> >> }

NextConc ==
    \E t \in Threads :
        \/ \E u \in ConcUsers, form \in ConcUploads : t_upload(t, u, form)
        \/ \E u \in ConcUsers, id \in 1..MaxStories : t_delete(t, u, id)
        \/ \E u \in ConcUsers : t_dashboard(t, u)
        \/ \E u \in ConcUsers, q \in Questions : t_ask(t, u, q)
        \/ t_check_index(t)
        \/ t_select(t)
        \/ t_delete_chunks(t)
        \/ t_embed(t)
        \/ t_new_index(t)
        \/ t_add(t)
        \/ t_store(t)
        \/ t_search(t)
        \/ t_query(t)
        \/ t_collect(t)
        \/ t_answer(t)

SpecConc == Init /\ [][NextConc]_vars


\* ------------------------------------------------ the conversation store
\* save_conversation and the two queries on conversation_history, called on
\* their own.

\* Rows ever appended to conversation_history in SpecStore.
MaxRecords == 3

\* get_conversation_context(self, user_id, limit=5)
context_limit == 5
\* LIMIT 10 of get_chat_history
history_limit == 10

\* The limits get_conversation_context is called with.
Limits == {1, context_limit}

RECURSIVE newest_first(_, _, _)
\* The ways to list up to k of the rows `left` of the table hist by
\* descending created_at: the next row is any row of `left` with the latest
\* created_at.  SQLite leaves the order of rows with equal sort keys open.
newest_first(hist, left, k) ==
    IF k = 0 \/ left = {} THEN {<<>>}
    ELSE LET latest == {r \in left : \A x \in left :
                           hist[x].created_at <= hist[r].created_at}
         IN  UNION { { <<r>> \o t : t \in newest_first(hist, left \ {r}, k - 1) }
                     : r \in latest }

\* SELECT ... FROM conversation_history WHERE user_id = ?
\* ORDER BY created_at DESC LIMIT ?   (the lists of row ids it may return)
select_recent(hist, user_id, limit) ==
    newest_first(hist, {i \in 1..Len(hist) : hist[i].user_id = user_id}, limit)

\* SemanticChatEngine.save_conversation
save_conversation(user_id, question, answer, sources) ==
    /\ Len(conversation_history) < MaxRecords
    /\ \E created_at \in timestamps(conversation_history) :
          conversation_history' =
              Append(conversation_history,
                     conversation_row(user_id, question, answer, sources, created_at))
    /\ resp' = Response("save_conversation", user_id, 0)
    /\ UNCHANGED <<stories, owners, index, story_chunks, threads, db_writer>>

\* SemanticChatEngine.get_conversation_context
get_conversation_context(user_id, limit) ==
    /\ \E records \in select_recent(conversation_history, user_id, limit) :
          resp' = [Response("get_conversation_context", user_id, 0) EXCEPT
                     !.limit = limit, !.records = records]
    /\ UNCHANGED <<stories, owners, conversation_history, index, story_chunks,
                   threads, db_writer>>

\* GET /api/chat/history
get_chat_history(user_id) ==
    /\ \E records \in select_recent(conversation_history, user_id, history_limit) :
          resp' = [Response("get_chat_history", user_id, 200) EXCEPT
                     !.limit = history_limit, !.records = records]
    /\ UNCHANGED <<stories, owners, conversation_history, index, story_chunks,
                   threads, db_writer>>

NextStore ==
    \/ \E u \in Users, q \in {x \in Questions : Strip(x) # <<>>}, qa_ok \in BOOLEAN :
          save_conversation(u, Strip(q), generate_answer(qa_ok), <<>>)
    \/ \E u \in Users, limit \in Limits : get_conversation_context(u, limit)
    \/ \E u \in Users : get_chat_history(u)

SpecStore == Init /\ [][NextStore]_vars

\* ------------------------------------------------------------ the chunker
\* chunk_text called on its own, on every short text over a few runs.

\* Runs in a text given to chunk_text.
MaxRuns == 5

\* "a", 300 b's, 600 c's, ".", "!!", " ", two newlines
Runs == { <<"a", 1>>, <<"b", 300>>, <<"c", 600>>, <<".", 1>>, <<"!", 2>>,
          <<" ", 1>>, <<"\n", 2>> }

Texts ==
    { t \in UNION { [1..n -> Runs] : n \in 0..MaxRuns } :
        \A i \in 1..(Len(t) - 1) : t[i][1] # t[i + 1][1] }

\* chunks = self.chunk_text(full_text): one call of chunk_text, which reads
\* and leaves no state, on a fresh engine
chunk_text_call(text) ==
    /\ resp.op = "start"
    /\ resp' = [Response("chunk_text", 0, 0) EXCEPT
                  !.text = text, !.chunks = chunk_text(text)]
    /\ UNCHANGED <<stories, owners, conversation_history, index, story_chunks,
                   threads, db_writer>>

\* The texts chunk_text may still be called with.
Pending == IF resp.op = "start" THEN Texts ELSE {}

NextChunk == \E text \in Pending : chunk_text_call(text)

SpecChunk == Init /\ [][NextChunk]_vars

\* ------------------------------------------------------------- properties

Range(seq) == {seq[i] : i \in 1..Len(seq)}

\* The chunks of the stories a user has now.
current_chunks(user_id) == chunk_metadata(user_stories(stories, user_id))

\* C1: every search result of an ask made by a user refers to a story that
\* this user inserted.
C1_TenantIsolation ==
    resp.op = "ask" =>
        \A r \in Range(resp.results) : owners[r.story_id] = resp.user_id

\* C2: a question is only ever searched against an index and a chunk list
\* built from exactly the asking user's current stories.
C2_NoStaleAnswers ==
    (resp.op = "ask" /\ resp.searched) =>
        /\ story_chunks = current_chunks(resp.user_id)
        /\ index.vectors = current_chunks(resp.user_id)

\* C3: when build_semantic_index returns for a user who has no stories, the
\* index is absent and the chunk list empty.
C3_RebuildEmptyClears ==
    (resp.build = "returned" /\ user_stories(stories, resp.user_id) = <<>>) =>
        ~index.present /\ story_chunks = <<>>

\* C4: when build_semantic_index returns for a user, the index holds as many
\* rows as the user's current stories have chunks, and no chunk of the chunk
\* list refers to a deleted story.
C4_RebuildCountsChunks ==
    resp.build = "returned" =>
        /\ Len(index.vectors) = Len(current_chunks(resp.user_id))
        /\ \A c \in Range(story_chunks) : \E s \in stories : s.id = c.story_id

\* C5: the search of a request reads rows of self.index and a
\* self.story_chunks list that are the same chunks in the same order, as one
\* completed build leaves them.
C5_AtomicReplacement ==
    \A t \in Threads :
        threads[t].pc = "answer" => threads[t].seen_vectors = threads[t].seen_chunks

InBuild(t) ==
    threads[t].pc \in {"select", "delete_chunks", "embed", "new_index", "add", "store"}

InSearch(t) == threads[t].pc \in {"search", "query", "collect"}

\* C6: no two threads are inside build_semantic_index for the same user at
\* once, and none is inside it while another runs semantic_search for that user.
C6_PerTenantSerialization ==
    \A t1, t2 \in Threads :
        (t1 # t2 /\ threads[t1].user_id = threads[t2].user_id) =>
            ~(InBuild(t1) /\ (InBuild(t2) \/ InSearch(t2)))

\* C7: a request whose build_semantic_index raised (the embedding model
\* failed) leaves index and story_chunks as they were, so that every search
\* returns what it returned before, and the request ends as an error.
C7_FailedRebuildKeepsIndex ==
    [][ resp'.build = "raised" =>
          /\ index' = index
          /\ story_chunks' = story_chunks
          /\ \A q \in Questions :
                semantic_search(index', story_chunks', Strip(q), top_k)
                = semantic_search(index, story_chunks, Strip(q), top_k)
          /\ resp'.status = 500 ]_vars

\* C7 witness: a rebuild failed while an index was installed.
C7_Witness == resp.build = "raised" /\ index.present /\ story_chunks # <<>>

\* C8: a search over n > 0 rows returns min(top_k, n) results, each made from
\* a different row and none from an unfilled place.
C8_SearchReturnsMinKN ==
    (resp.op = "ask" /\ resp.results # <<>>) =>
        /\ Len(resp.results) = Min(top_k, Len(index.vectors))
        /\ \A i, j \in 1..Len(resp.results) :
              i # j => resp.results[i].row # resp.results[j].row
        /\ \A r \in Range(resp.results) : r.row >= 0

\* C9: search results are in descending score order, equal scores in
\* ascending story id and then ascending chunk ordinal.
C9_SearchOrder ==
    resp.op = "ask" =>
        \A i, j \in 1..Len(resp.results) :
            i < j =>
              LET a == resp.results[i]
                  b == resp.results[j]
                  oa == PyItem(story_chunks, a.row).chunk_index
                  ob == PyItem(story_chunks, b.row).chunk_index
              IN  \/ a.score > b.score
                  \/ /\ a.score = b.score
                     /\ \/ a.story_id < b.story_id
                        \/ a.story_id = b.story_id /\ oa <= ob

\* C10: every answer of /api/chat carries a confidence in [0, 1], which is 0
\* when the user's stories have no chunks.
C10_AskConfidence ==
    (resp.op = "ask" /\ resp.status = 200) =>
        /\ resp.has_confidence
        /\ 0 <= resp.confidence /\ resp.confidence <= 1
        /\ current_chunks(resp.user_id) = <<>> => resp.confidence = 0

\* C11: an ask with a question, made by a user who has no stories, answers
\* with confidence 0 and no sources and without calling the QA model,
\* whatever index the engine holds.
C11_AskWithoutDocuments ==
    (resp.op = "ask" /\ resp.status # 400 /\ user_stories(stories, resp.user_id) = <<>>) =>
        /\ resp.status = 200
        /\ resp.has_confidence /\ resp.confidence = 0
        /\ resp.sources = <<>>
        /\ resp.qa = "not_called"
        /\ ~resp.searched

\* C11 witness: such an ask was answered while the engine held an index.
C11_Witness ==
    /\ resp.op = "ask" /\ resp.status = 200
    /\ user_stories(stories, resp.user_id) = <<>>
    /\ index.present /\ story_chunks # <<>>

\* C12: when the QA model raises during an ask that has search results, the
\* ask still answers normally: the answer is the fixed fallback message, the
\* sources are the titles of the stories of the top results, and the
\* confidence is the score of the first search result.
C12_SynthesizerFallback ==
    resp.qa = "raised" =>
        LET top == Take(resp.results, ctx_k)
            cited == {s \in stories : \E i \in 1..Len(top) : top[i].story_id = s.id}
        IN  /\ resp.status = 200
            /\ resp.answer = "I couldn't find a specific answer to your question."
            /\ resp.results # <<>>
            /\ Range(resp.sources) = {s.title : s \in cited}
            /\ Len(resp.sources) = Cardinality(cited)
            /\ resp.has_confidence
            /\ resp.confidence = resp.results[1].score

\* C12 witness: the QA model raised in an ask whose search found chunks of
\* stories that exist.
C12_Witness == resp.qa = "raised" /\ resp.results # <<>> /\ resp.sources # <<>>

\* The code sets no maximum context length.  The only length it configures is
\* chunk_size: the longest text ctx_k chunks within chunk_size join to.
max_context_length == ctx_k * chunk_size + (ctx_k - 1) * 2

\* C13: the context handed to the QA model is the join, in ranked order, of
\* at most the top ctx_k search results, the last of them cut short when
\* needed, and is never longer than the maximum context length.
C13_ContextBounded ==
    resp.qa # "not_called" =>
        LET top == Take(resp.results, ctx_k)
        IN  /\ TLen(resp.context) <= max_context_length
            /\ \E cut \in 0..TLen(top[Len(top)].chunk) :
                  TLen(resp.context) = TLen(join_chunks(top)) - cut
            /\ \A i \in 1..(Len(top) - 1) :
                  SubSeq(resp.context, 1, Len(join_chunks(Take(top, i))))
                    = join_chunks(Take(top, i))

\* C14: every ask that returns an answer appends exactly one row to
\* conversation_history, holding the asking user, the question, and the
\* answer and sources that were returned; and no step changes or removes a
\* row that is already there.
C14_ExchangePersisted ==
    [][ /\ Len(conversation_history') >= Len(conversation_history)
        /\ SubSeq(conversation_history', 1, Len(conversation_history)) = conversation_history
        /\ (resp'.op = "ask" /\ resp'.status = 200) =>
              /\ Len(conversation_history') = Len(conversation_history) + 1
              /\ LET row == conversation_history'[Len(conversation_history')]
                 IN  /\ row.user_id = resp'.user_id
                     /\ row.question \in {Strip(q) : q \in Questions}
                     /\ row.answer = resp'.answer
                     /\ row.sources = resp'.sources ]_vars

\* C15: a query for the recent rows of a user returns min(limit, n) of the
\* user's n rows, the most recently appended ones, latest first, also when
\* rows carry the same created_at.
C15_RecentOrder ==
    resp.op \in {"get_conversation_context", "get_chat_history"} =>
        LET mine == SortedIds({i \in 1..Len(conversation_history) :
                                 conversation_history[i].user_id = resp.user_id})
            n == Len(mine)
            k == Min(resp.limit, n)
        IN  resp.records = [i \in 1..k |-> mine[n - i + 1]]

RECURSIVE Content(_, _)
\* The characters of a text that are neither whitespace nor sentence
\* terminators, in order (acc: the content read so far).
Content(t, acc) ==
    IF t = <<>> THEN acc
    ELSE IF Head(t)[1] \in Term \cup WS THEN Content(Tail(t), acc)
    ELSE IF acc # <<>> /\ acc[Len(acc)][1] = Head(t)[1]
    THEN Content(Tail(t), [acc EXCEPT ![Len(acc)] = <<@[1], @[2] + Head(t)[2]>>])
    ELSE Content(Tail(t), Append(acc, Head(t)))

RECURSIVE Concat(_)
Concat(texts) == IF texts = <<>> THEN <<>> ELSE Head(texts) \o Concat(Tail(texts))

\* The sentences of a chunk: its runs of terminators.
Sentences(chunk) == Cardinality({i \in 1..Len(chunk) : chunk[i][1] \in Term})

only_chunk(story) == chunk_text(full_text(story.title, story.content))[1]

\* The user of the last response has exactly the stories doc1 and doc2, each
\* forming one chunk, the engine was built from them, and the question just
\* searched scores doc1's chunk above doc2's.
TwoDocuments(doc1, doc2) ==
    /\ resp.op = "ask" /\ resp.results # <<>>
    /\ doc1 # doc2
    /\ {s \in stories : s.user_id = resp.user_id} = {doc1, doc2}
    /\ Len(chunk_text(full_text(doc1.title, doc1.content))) = 1
    /\ Len(chunk_text(full_text(doc2.title, doc2.content))) = 1
    /\ story_chunks = current_chunks(resp.user_id)
    /\ index.vectors = story_chunks
    /\ Similarity(resp.question, only_chunk(doc1))
         > Similarity(resp.question, only_chunk(doc2))

\* C17: with exactly two one-chunk stories of which the question scores the
\* first strictly higher, the search lists the first story's chunk first and
\* the ask returns the first story's title as its only source.
C17_ScenarioSources ==
    \A doc1, doc2 \in stories :
        TwoDocuments(doc1, doc2) =>
            /\ resp.results[1].story_id = doc1.id
            /\ resp.sources = <<doc1.title>>

\* C18: between requests served one at a time, the index is absent exactly
\* when the chunk list is empty; otherwise it has one row for each entry of
\* the chunk list, and the chunk list holds the chunks of each story side by
\* side with the ordinals 0, 1, 2, ... in order.
C18_IndexMatchesChunks ==
    /\ index.present <=> story_chunks # <<>>
    /\ Len(index.vectors) = Len(story_chunks)
    /\ \A i \in 1..Len(story_chunks) :
          story_chunks[i].chunk_index =
              IF i > 1 /\ story_chunks[i - 1].story_id = story_chunks[i].story_id
              THEN story_chunks[i - 1].chunk_index + 1
              ELSE 0
    /\ \A i, j \in 1..Len(story_chunks) :
          (i < j /\ story_chunks[i].story_id = story_chunks[j].story_id) =>
              \A k \in i..j : story_chunks[k].story_id = story_chunks[i].story_id

\* C18 witness: the engine holds the chunks of two stories, one of them in
\* two chunks, after a request that called build_semantic_index.
C18_Witness ==
    /\ index.present
    /\ resp.build # "not_called"
    /\ \E i, j \in 1..Len(story_chunks) :
          story_chunks[i].story_id # story_chunks[j].story_id
    /\ \E i \in 1..Len(story_chunks) : story_chunks[i].chunk_index = 1

====
